---- MODULE Spec2Model ----
(***************************************************************************)
(* Model of casino/cards.py: Deck (construction, shuffle, deal),           *)
(* BlackJackHand.score, PokerHand classification and comparison, and       *)
(* HoldEmHand.hand_rank.                                                   *)
(***************************************************************************)
EXTENDS Integers, Sequences, FiniteSets

VARIABLES
    deck,             \* Deck.deck: the list of Card objects
    idx,              \* Deck._idx: the deal cursor
    num_decks,        \* the argument Deck.__init__ was called with
    last,             \* the last Deck call: its argument, the cursor before it, its outcome
    returned,         \* every card returned by a successful deal, in order
    ops,              \* number of Deck calls made since construction
    cards,            \* self.cards of the hand under evaluation
    community_cards,  \* HoldEmHand.community_cards
    other_cards,      \* self.cards of the right-hand operand of a comparison
    observed          \* what the last evaluated property or operator returned

vars == <<deck, idx, num_decks, last, returned, ops,
          cards, community_cards, other_cards, observed>>

deckVars == <<deck, idx, num_decks, last, returned, ops>>
handVars == <<cards, community_cards, other_cards, observed>>

---------------------------------------------------------------------------
(* Bounds of the model *)

MaxDecks == 2
MaxSeed == 2
MaxDeal == 1
MaxOps == 3

---------------------------------------------------------------------------
(* Module-level constants, lines 7-22 *)

RANKS == <<"2", "3", "4", "5", "6", "7", "8", "9", "10", "J", "Q", "K", "A">>
SUITS == <<"H", "D", "C", "S">>

Card(rank, suit) == [rank |-> rank, suit |-> suit]

Range(s) == {s[i] : i \in 1..Len(s)}

---------------------------------------------------------------------------
(* Deck *)

\* A Card object held by the deck: the namedtuple's value plus the identity of
\* the object (the position at which _create_cards made it).
CardObj(rank, suit, obj) == [rank |-> rank, suit |-> suit, obj |-> obj]

\* list(Card(rank, suit) for rank, suit in itertools.product(RANKS * n, SUITS))
_create_cards(n) ==
    [p \in 1..(Len(RANKS) * n * Len(SUITS)) |->
        CardObj(RANKS[(((p - 1) \div Len(SUITS)) % Len(RANKS)) + 1],
                SUITS[((p - 1) % Len(SUITS)) + 1], p)]

\* The random source, one draw sequence per seed: under seed, randbelow(n)
\* returns n - 1 - seed modulo n. Seed 1 makes shuffle rotate the list by one
\* place; every sequence is one the generator can produce.
randbelow(seed, n) == (n - 1 - seed) % n

\* x[i], x[j] = x[j], x[i] (0-based i, j)
swap_lossy(x, i, j) == [x EXCEPT ![i + 1] = x[j + 1]]

swap(x, i, j) == [x EXCEPT ![i + 1] = x[j + 1], ![j + 1] = x[i + 1]]

\* random.shuffle(x): for i in reversed(range(1, len(x))):
\*                        j = randbelow(i + 1); x[i], x[j] = x[j], x[i]
\* shuffle_range runs the loop body for i = hi down to lo. The range is split
\* in two and the upper half is evaluated before the lower one starts, which
\* keeps the evaluation depth logarithmic in len(x).
RECURSIVE shuffle_range(_, _, _, _)
shuffle_range(x, hi, lo, seed) ==
    IF hi < lo THEN x
    ELSE IF hi = lo THEN swap(x, hi, randbelow(seed, hi + 1))
    ELSE LET mid == (hi + lo) \div 2
             y == shuffle_range(x, hi, mid + 1, seed)
         IN  IF Len(y) = Len(x) THEN shuffle_range(y, mid, lo, seed) ELSE y

random_shuffle(x, seed) == shuffle_range(x, Len(x) - 1, 1, seed)

\* len(self.deck) - self._idx
cards_remaining == Len(deck) - idx

Min2(a, b) == IF a < b THEN a ELSE b

\* list(itertools.islice(xs, start, stop)) for start >= 0 and stop >= 0
islice(xs, start, stop) == SubSeq(xs, start + 1, Min2(stop, Len(xs)))

Seeds == 1..MaxSeed

\* The arguments deal is called with: small counts of either sign, and the
\* counts around the number of cards remaining.
DealArgs == (-MaxDeal..MaxDeal) \cup {cards_remaining - 1, cards_remaining, cards_remaining + 1}

NoCall == [op |-> "none", n |-> 0, before |-> 0, status |-> "ok", cards |-> <<>>]

\* Deck.__init__(num_decks): create the cards, shuffle, cursor at 0
InitDeck ==
    /\ num_decks \in 1..MaxDecks
    /\ \E seed \in Seeds : deck = random_shuffle(_create_cards(num_decks), seed)
    /\ idx = 0
    /\ last = NoCall
    /\ returned = <<>>
    /\ ops = 0

NoHands ==
    /\ cards = <<>>
    /\ community_cards = <<>>
    /\ other_cards = <<>>
    /\ observed = [op |-> "none"]

\* Deck.shuffle()
Shuffle(seed) ==
    /\ ops < MaxOps
    /\ deck' = random_shuffle(deck, seed)
    /\ last' = [op |-> "shuffle", n |-> 0, before |-> idx, status |-> "ok", cards |-> <<>>]
    /\ ops' = ops + 1
    /\ UNCHANGED <<idx, num_decks, returned>>
    /\ UNCHANGED handVars

\* Deck.deal(num_cards)
Deal(n) ==
    /\ ops < MaxOps
    /\ ops' = ops + 1
    /\ IF cards_remaining > n
       THEN IF idx + n < 0
            THEN \* islice raises ValueError on a negative stop, before line 49
                 /\ last' = [op |-> "deal", n |-> n, before |-> idx,
                             status |-> "ValueError", cards |-> <<>>]
                 /\ UNCHANGED <<idx, returned>>
            ELSE LET dealt == islice(deck, idx, idx + n) IN
                 /\ idx' = idx + n
                 /\ last' = [op |-> "deal", n |-> n, before |-> idx,
                             status |-> "ok", cards |-> dealt]
                 /\ returned' = returned \o dealt
       ELSE /\ last' = [op |-> "deal", n |-> n, before |-> idx,
                        status |-> "ValueError", cards |-> <<>>]
            /\ UNCHANGED <<idx, returned>>
    /\ UNCHANGED <<deck, num_decks>>
    /\ UNCHANGED handVars

InitD == InitDeck /\ NoHands

NextDeck ==
    \/ \E seed \in Seeds : Shuffle(seed)
    \/ \E n \in DealArgs : Deal(n)

SpecDeck == InitD /\ [][NextDeck]_vars

---------------------------------------------------------------------------
(* Helpers standing for Python built-ins *)

\* The characters of a rank string and their code points, for str comparison.
str_chars(r) == IF r = "10" THEN <<"1", "0">> ELSE <<r>>

ord(c) ==
    CASE c = "0" -> 48 [] c = "1" -> 49 [] c = "2" -> 50 [] c = "3" -> 51
      [] c = "4" -> 52 [] c = "5" -> 53 [] c = "6" -> 54 [] c = "7" -> 55
      [] c = "8" -> 56 [] c = "9" -> 57 [] c = "A" -> 65 [] c = "J" -> 74
      [] c = "K" -> 75 [] c = "Q" -> 81

\* a < b on str: lexicographic on code points, a proper prefix being smaller
RECURSIVE seq_lt(_, _)
seq_lt(a, b) ==
    IF b = <<>> THEN FALSE
    ELSE IF a = <<>> THEN TRUE
    ELSE IF ord(Head(a)) # ord(Head(b)) THEN ord(Head(a)) < ord(Head(b))
    ELSE seq_lt(Tail(a), Tail(b))

str_lt(a, b) == seq_lt(str_chars(a), str_chars(b))

\* sorted(xs) for a list of str
RECURSIVE sorted(_)
sorted(xs) ==
    IF xs = <<>> THEN <<>>
    ELSE LET rest == sorted(Tail(xs))
             smaller == SelectSeq(rest, LAMBDA e : str_lt(e, Head(xs)))
             others == SelectSeq(rest, LAMBDA e : ~str_lt(e, Head(xs)))
         IN  smaller \o <<Head(xs)>> \o others

\* Counter(xs).values(): the count of every distinct element of xs, in the
\* order of first occurrence
RECURSIVE Counter_values(_)
Counter_values(xs) ==
    IF xs = <<>> THEN <<>>
    ELSE LET h == Head(xs)
             n == Cardinality({i \in 1..Len(xs) : xs[i] = h})
         IN  <<n>> \o Counter_values(SelectSeq(Tail(xs), LAMBDA e : e # h))

\* RANKS.index(x), 0-based
RANKS_index(x) == (CHOOSE i \in 1..Len(RANKS) : RANKS[i] = x) - 1

SetMax(S) == CHOOSE m \in S : \A x \in S : x <= m
SetMin(S) == CHOOSE m \in S : \A x \in S : m <= x

\* list(itertools.combinations(s, k)), in itertools' order
RECURSIVE combinations(_, _)
combinations(s, k) ==
    IF k = 0 THEN << <<>> >>
    ELSE IF Len(s) < k THEN <<>>
    ELSE LET with_head == combinations(Tail(s), k - 1)
         IN  [i \in 1..Len(with_head) |-> <<Head(s)>> \o with_head[i]]
                 \o combinations(Tail(s), k)

---------------------------------------------------------------------------
(* BlackJackHand *)

\* dict(zip(RANKS, (*range(2, 11), 10, 10, 10, 11)))
CARD_VALUES ==
    LET values == <<2, 3, 4, 5, 6, 7, 8, 9, 10, 10, 10, 10, 11>>
    IN  [r \in Range(RANKS) |-> values[RANKS_index(r) + 1]]

_handle_ace_ge(current_hand_score) == IF current_hand_score >= 10 THEN 1 ELSE 11

_handle_ace(current_hand_score) == IF current_hand_score > 10 THEN 1 ELSE 11

\* the loop of BlackJackHand.score over the cards not yet visited
RECURSIVE score_loop(_, _)
score_loop(cs, hand_score) ==
    IF cs = <<>> THEN hand_score
    ELSE LET card == Head(cs)
             card_score == IF "A" \in {card.rank, card.suit}
                           THEN _handle_ace(hand_score)
                           ELSE CARD_VALUES[card.rank]
         IN  score_loop(Tail(cs), hand_score + card_score)

BlackJackHand_score(cs) == score_loop(cs, 0)

---------------------------------------------------------------------------
(* PokerHand *)

hand_order ==
    <<"royal_flush", "four_kind", "straight_flush", "full_house", "flush",
      "straight", "three_kind", "two_pair", "pair", "high_card">>

\* the value standing for next() raising StopIteration: no category matched
StopIteration == -1

suits(cs) == [i \in 1..Len(cs) |-> cs[i].suit]
ranks(cs) == [i \in 1..Len(cs) |-> cs[i].rank]

_all_unique_ranks(cs) == Cardinality(Range(ranks(cs))) = 5

is_pair(cs) == 2 \in Range(Counter_values(ranks(cs)))

is_two_pair(cs) == 2 \in Range(Counter_values(Counter_values(ranks(cs))))

is_three_kind(cs) == 3 \in Range(Counter_values(ranks(cs)))

is_straight(cs) ==
    IF "A" \in Range(ranks(cs))
    THEN sorted(ranks(cs)) = <<"2", "3", "4", "5", "A">>
    ELSE LET rank_indices == {RANKS_index(x) : x \in Range(ranks(cs))}
             sub_length == SetMax(rank_indices) - SetMin(rank_indices)
         IN  _all_unique_ranks(cs) /\ sub_length = 4

is_flush(cs) == Cardinality(Range(suits(cs))) = 1 /\ Len(cs) = 5

is_high_card(cs) ==
    (~is_straight(cs)) /\ (~is_flush(cs)) /\ Cardinality(Range(ranks(cs))) = 5

is_full_house(cs) == is_pair(cs) /\ is_three_kind(cs)

is_four_kind(cs) == 4 \in Range(Counter_values(ranks(cs)))

is_straight_flush(cs) == is_straight(cs) /\ is_flush(cs)

is_royal_flush(cs) ==
    sorted(ranks(cs)) = <<"10", "A", "J", "K", "Q">> /\ is_flush(cs)

\* getattr(self, 'is_' + hand)
is_(hand, cs) ==
    CASE hand = "royal_flush" -> is_royal_flush(cs)
      [] hand = "four_kind" -> is_four_kind(cs)
      [] hand = "straight_flush" -> is_straight_flush(cs)
      [] hand = "full_house" -> is_full_house(cs)
      [] hand = "flush" -> is_flush(cs)
      [] hand = "straight" -> is_straight(cs)
      [] hand = "three_kind" -> is_three_kind(cs)
      [] hand = "two_pair" -> is_two_pair(cs)
      [] hand = "pair" -> is_pair(cs)
      [] hand = "high_card" -> is_high_card(cs)

\* next(hand for hand in hand_order if is_<hand>), from position i on (1-based),
\* as the 0-based hand_order.index of the hand found
RECURSIVE next_hand(_, _)
next_hand(i, cs) ==
    IF i > Len(hand_order) THEN StopIteration
    ELSE IF is_(hand_order[i], cs) THEN i - 1
    ELSE next_hand(i + 1, cs)

PokerHand_hand_rank(cs) == next_hand(1, cs)

PokerHand_lt(self, other) == PokerHand_hand_rank(self) > PokerHand_hand_rank(other)

PokerHand_gt_same_sign(self, other) ==
    PokerHand_hand_rank(self) > PokerHand_hand_rank(other)

PokerHand_gt(self, other) == PokerHand_hand_rank(self) < PokerHand_hand_rank(other)

PokerHand_le(self, other) == PokerHand_hand_rank(self) >= PokerHand_hand_rank(other)

PokerHand_ge(self, other) == PokerHand_hand_rank(self) <= PokerHand_hand_rank(other)

---------------------------------------------------------------------------
(* HoldEmHand *)

\* best_rank = 1e6
Sentinel == 1000000

keep_larger(current_rank, best_rank) ==
    IF current_rank > best_rank THEN current_rank ELSE best_rank

\* best_rank = current_rank if current_rank < best_rank else best_rank
keep_best(current_rank, best_rank) ==
    IF current_rank < best_rank THEN current_rank ELSE best_rank

\* the loop of HoldEmHand.hand_rank over the combinations not yet visited; a
\* StopIteration raised by PokerHand.hand_rank leaves the loop
RECURSIVE best_rank_loop(_, _, _)
best_rank_loop(hole, combos, best_rank) ==
    IF combos = <<>> THEN best_rank
    ELSE LET current_rank == PokerHand_hand_rank(hole \o Head(combos))
         IN  IF current_rank = StopIteration THEN StopIteration
             ELSE best_rank_loop(hole, Tail(combos),
                                 keep_best(current_rank, best_rank))

HoldEmHand_hand_rank(hole, community) ==
    IF community # <<>>
    THEN best_rank_loop(hole, combinations(community, 3), Sentinel)
    ELSE PokerHand_hand_rank(hole)

---------------------------------------------------------------------------
(* Hands under evaluation *)

NumPokerCards == 21
NumCompareCards == 7
NumHoldEmCards == 8
MaxBlackJackCards == 3

\* The cards hands are drawn from, a prefix of this list: the cards of the
\* documented example hands first, then the remaining aces.
SampleCards ==
    <<Card("A", "H"), Card("A", "S"), Card("2", "H"), Card("3", "H"),
      Card("4", "H"), Card("5", "H"), Card("9", "H"), Card("K", "D"),
      Card("6", "H"), Card("10", "H"), Card("J", "H"), Card("Q", "H"),
      Card("K", "H"), Card("2", "D"), Card("2", "C"), Card("5", "D"),
      Card("3", "D"), Card("4", "C"), Card("5", "S"), Card("7", "S"),
      Card("5", "C"), Card("A", "D"), Card("A", "C")>>

Sample(n) == SubSeq(SampleCards, 1, n)

\* One card of every rank, for blackjack hands (which may repeat a card when
\* several decks are in play).
BlackJackCards ==
    {Card(RANKS[i], SUITS[((i - 1) % Len(SUITS)) + 1]) : i \in 1..Len(RANKS)}

NoDeck ==
    /\ deck = <<>>
    /\ idx = 0
    /\ num_decks = 0
    /\ last = NoCall
    /\ returned = <<>>
    /\ ops = 0

\* PokerHand(cards) for five distinct cards
InitPoker ==
    /\ NoDeck
    /\ cards \in Range(combinations(Sample(NumPokerCards), 5))
    /\ community_cards = <<>>
    /\ other_cards = <<>>
    /\ observed = [op |-> "none"]

\* PokerHand.hand_rank
ReadHandRank ==
    /\ observed.op = "none"
    /\ observed' = [op |-> "hand_rank", value |-> PokerHand_hand_rank(cards)]
    /\ UNCHANGED <<cards, community_cards, other_cards>>
    /\ UNCHANGED deckVars

\* PokerHand.is_two_pair
ReadIsTwoPair ==
    /\ observed.op = "none"
    /\ observed' = [op |-> "is_two_pair", value |-> is_two_pair(cards)]
    /\ UNCHANGED <<cards, community_cards, other_cards>>
    /\ UNCHANGED deckVars

NextPoker == ReadHandRank \/ ReadIsTwoPair

SpecPoker == InitPoker /\ [][NextPoker]_vars

\* two PokerHands of five distinct cards each
InitCompare ==
    /\ NoDeck
    /\ cards \in Range(combinations(Sample(NumCompareCards), 5))
    /\ other_cards \in Range(combinations(Sample(NumCompareCards), 5))
    /\ community_cards = <<>>
    /\ observed = [op |-> "none"]

\* self < other, self > other, self <= other, self >= other
Compare ==
    /\ observed.op = "none"
    /\ observed' = [op |-> "compare",
                    lt |-> PokerHand_lt(cards, other_cards),
                    gt |-> PokerHand_gt(cards, other_cards),
                    le |-> PokerHand_le(cards, other_cards),
                    ge |-> PokerHand_ge(cards, other_cards)]
    /\ UNCHANGED <<cards, community_cards, other_cards>>
    /\ UNCHANGED deckVars

SpecCompare == InitCompare /\ [][Compare]_vars

\* HoldEmHand(cards, community_cards): 2 hole cards and 0, 3, 4 or 5
\* community cards, all distinct
InitHoldEm ==
    /\ NoDeck
    /\ cards \in Range(combinations(Sample(NumHoldEmCards), 2))
    /\ \E k \in {0, 3, 4, 5} :
          community_cards \in
              Range(combinations(
                  SelectSeq(Sample(NumHoldEmCards), LAMBDA c : c \notin Range(cards)), k))
    /\ other_cards = <<>>
    /\ observed = [op |-> "none"]

\* HoldEmHand.hand_rank
ReadHoldEmRank ==
    /\ observed.op = "none"
    /\ observed' = [op |-> "holdem_hand_rank",
                    value |-> HoldEmHand_hand_rank(cards, community_cards)]
    /\ UNCHANGED <<cards, community_cards, other_cards>>
    /\ UNCHANGED deckVars

SpecHoldEm == InitHoldEm /\ [][ReadHoldEmRank]_vars

\* BlackJackHand(cards)
InitBlackJack ==
    /\ NoDeck
    /\ \E n \in 0..MaxBlackJackCards : cards \in [1..n -> BlackJackCards]
    /\ community_cards = <<>>
    /\ other_cards = <<>>
    /\ observed = [op |-> "none"]

\* BlackJackHand.score
ReadScore ==
    /\ observed.op = "none"
    /\ observed' = [op |-> "score", value |-> BlackJackHand_score(cards)]
    /\ UNCHANGED <<cards, community_cards, other_cards>>
    /\ UNCHANGED deckVars

SpecBlackJack == InitBlackJack /\ [][ReadScore]_vars

---------------------------------------------------------------------------
(* Claims about Deck *)

\* C1: on a deck with r cards remaining, deal(n) with n = r succeeds, returns
\* the r undealt cards and leaves cards_remaining = 0, while deal(n) with
\* n > r fails with an error.
C1_DealAllRemaining ==
    last.op = "deal" =>
        LET r == Len(deck) - last.before IN
        /\ last.n = r =>
              /\ last.status = "ok"
              /\ last.cards = SubSeq(deck, last.before + 1, Len(deck))
              /\ cards_remaining = 0
        /\ last.n > r => last.status = "ValueError"

\* C2: over any sequence of deal and shuffle calls, no card object of the deck
\* is returned by more than one successful deal.
C2_NeverRedealt ==
    \A i, j \in 1..Len(returned) :
        i # j => returned[i].obj # returned[j].obj

\* C7: a fresh Deck(num_decks) has cards_remaining = 52 * num_decks and holds
\* exactly num_decks copies of every (rank, suit) pair, one per created card
\* object, and shuffle and deal leave this multiset as it is.
C7_DeckComposition ==
    /\ Len(deck) = 52 * num_decks
    /\ ops = 0 => cards_remaining = 52 * num_decks
    /\ \A r \in Range(RANKS), s \in Range(SUITS) :
          Cardinality({i \in 1..Len(deck) : deck[i].rank = r /\ deck[i].suit = s})
              = num_decks
    /\ {deck[i].obj : i \in 1..Len(deck)} = 1..(52 * num_decks)

\* A two-deck Deck that was shuffled again after cards had been dealt.
C7_Witness ==
    /\ num_decks = 2
    /\ ops >= 2
    /\ idx > 0
    /\ last.op = "shuffle"

\* C8: the cursor starts at 0, never decreases from one deal to the next,
\* stays within 0..len(deck), and a successful deal(n) advances it by n, for
\* any integer n.
C8_CursorMonotone ==
    /\ ops = 0 => idx = 0
    /\ 0 <= idx /\ idx <= Len(deck)
    /\ last.op = "deal" => idx >= last.before
    /\ (last.op = "deal" /\ last.status = "ok") =>
          /\ idx = last.before + last.n
          /\ cards_remaining = (Len(deck) - last.before) - last.n

---------------------------------------------------------------------------
(* Claims about BlackJackHand *)

C5_Value(rank) ==
    IF rank \in {"J", "Q", "K"} THEN 10
    ELSE 1 + (CHOOSE i \in 1..9 : RANKS[i] = rank)

\* the fold of the claim, defined on the cards before the last one
RECURSIVE C5_Fold(_)
C5_Fold(cs) ==
    IF cs = <<>> THEN 0
    ELSE LET before == C5_Fold(SubSeq(cs, 1, Len(cs) - 1))
             rank == cs[Len(cs)].rank
         IN  before + (IF rank = "A" THEN (IF before > 10 THEN 1 ELSE 11)
                       ELSE C5_Value(rank))

\* C5: score is the left-to-right fold in which 2-10 add their face value,
\* J, Q, K add 10 and an ace adds 1 if the total before it exceeds 10 and 11
\* otherwise; [K,Q] scores 20, [A,K] scores 21 and [A,A,9] scores 21.
C5_SequentialAceScore ==
    observed.op = "score" =>
        /\ observed.value = C5_Fold(cards)
        /\ ranks(cards) = <<"K", "Q">> => observed.value = 20
        /\ ranks(cards) = <<"A", "K">> => observed.value = 21
        /\ ranks(cards) = <<"A", "A", "9">> => observed.value = 21

\* The score of [A, A, 9] has been read.
C5_Witness ==
    /\ observed.op = "score"
    /\ ranks(cards) = <<"A", "A", "9">>
    /\ observed.value = 21

---------------------------------------------------------------------------
(* Claims about PokerHand *)

RankCount(cs, r) == Cardinality({i \in 1..Len(cs) : cs[i].rank = r})

RankSet(cs) == {cs[i].rank : i \in 1..Len(cs)}

\* the straight of the claim: five consecutive positions of 2..A, or A,2,3,4,5
RefStraight(cs) ==
    \/ \E low \in 1..(Len(RANKS) - 4) : RankSet(cs) = {RANKS[low + k] : k \in 0..4}
    \/ RankSet(cs) = {"A", "2", "3", "4", "5"}

RefFlush(cs) == \A i, j \in 1..Len(cs) : cs[i].suit = cs[j].suit

RefTwoPair(cs) == Cardinality({r \in RankSet(cs) : RankCount(cs, r) = 2}) = 2

\* membership of a five-card hand in the category at 0-based position k of
\* the order of the claim
RefCategory(k, cs) ==
    CASE k = 0 -> RefFlush(cs) /\ RankSet(cs) = {"10", "J", "Q", "K", "A"}
      [] k = 1 -> \E r \in RankSet(cs) : RankCount(cs, r) = 4
      [] k = 2 -> RefStraight(cs) /\ RefFlush(cs)
      [] k = 3 -> /\ \E r \in RankSet(cs) : RankCount(cs, r) = 3
                  /\ \E r \in RankSet(cs) : RankCount(cs, r) = 2
      [] k = 4 -> RefFlush(cs)
      [] k = 5 -> RefStraight(cs)
      [] k = 6 -> \E r \in RankSet(cs) : RankCount(cs, r) = 3
      [] k = 7 -> RefTwoPair(cs)
      [] k = 8 -> \E r \in RankSet(cs) : RankCount(cs, r) = 2
      [] k = 9 -> TRUE

RefHandRank(cs) == SetMin({k \in 0..9 : RefCategory(k, cs)})

\* C3: for five distinct cards hand_rank is the index of the first category,
\* in hand order, the hand belongs to, a straight being five consecutive ranks
\* of 2..A or A,2,3,4,5; a 10,J,Q,K,A hand that is no flush has hand_rank 5
\* and a straight of one suit below the royal has hand_rank 2.
C3_FirstMatchingCategory ==
    observed.op = "hand_rank" =>
        /\ observed.value = RefHandRank(cards)
        /\ (RankSet(cards) = {"10", "J", "Q", "K", "A"} /\ ~RefFlush(cards))
              => observed.value = 5
        /\ (RefStraight(cards) /\ RefFlush(cards)
                /\ RankSet(cards) # {"10", "J", "Q", "K", "A"})
              => observed.value = 2

\* C10: is_two_pair is true if and only if exactly two distinct ranks each
\* appear exactly twice; it is false for three of a kind with two kickers.
C10_TwoPairExact ==
    observed.op = "is_two_pair" => (observed.value <=> RefTwoPair(cards))

\* a hand whose category is flush, and one whose category is pair
RefFlushHand(cs) == RefHandRank(cs) = 4
RefPairHand(cs) == RefHandRank(cs) = 8

\* C6: A > B iff A.hand_rank < B.hand_rank, A < B iff A.hand_rank >
\* B.hand_rank, A >= B iff A.hand_rank <= B.hand_rank, A <= B iff A.hand_rank
\* >= B.hand_rank; exactly one of A < B, A > B, (A <= B and A >= B) holds;
\* every flush hand compares > every pair hand.
C6_ComparisonInverted ==
    observed.op = "compare" =>
        LET a == PokerHand_hand_rank(cards)
            b == PokerHand_hand_rank(other_cards)
            both == observed.le /\ observed.ge
        IN  /\ observed.gt <=> a < b
            /\ observed.lt <=> a > b
            /\ observed.ge <=> a <= b
            /\ observed.le <=> a >= b
            /\ observed.lt \/ observed.gt \/ both
            /\ ~(observed.lt /\ observed.gt)
            /\ ~(observed.lt /\ both)
            /\ ~(observed.gt /\ both)
            /\ (RefFlushHand(cards) /\ RefPairHand(other_cards)) => observed.gt

\* A flush has been compared with a pair.
C6_Witness ==
    /\ observed.op = "compare"
    /\ RefFlushHand(cards)
    /\ RefPairHand(other_cards)
    /\ observed.gt

---------------------------------------------------------------------------
(* Claims about HoldEmHand *)

\* the five-card hands of the claim: the hole cards plus a 3-card subset of
\* the community pool, taken in pool order
HoleAndThree(hole, community) ==
    {hole \o <<community[i], community[j], community[k]>> :
        <<i, j, k>> \in {t \in (1..Len(community)) \X (1..Len(community))
                                  \X (1..Len(community)) :
                            t[1] < t[2] /\ t[2] < t[3]}}

\* C4: with 2 hole cards and a community pool of 3, 4 or 5 cards, hand_rank is
\* the minimum over every 3-card subset S of the pool of
\* PokerHand(hole + S).hand_rank, and is one of the indices 0..9.
C4_BestOfCommunityTriples ==
    (observed.op = "holdem_hand_rank" /\ Len(community_cards) \in {3, 4, 5}) =>
        /\ observed.value \in 0..9
        /\ \E h \in HoleAndThree(cards, community_cards) :
              observed.value = PokerHand_hand_rank(h)
        /\ \A h \in HoleAndThree(cards, community_cards) :
              observed.value <= PokerHand_hand_rank(h)

\* The documented example: hole [AH, AS], community [2H, 3H, 4H, 5H, KD].
C4_Witness ==
    /\ observed.op = "holdem_hand_rank"
    /\ cards = <<Card("A", "H"), Card("A", "S")>>
    /\ Range(community_cards) =
          {Card("2", "H"), Card("3", "H"), Card("4", "H"), Card("5", "H"),
           Card("K", "D")}
    /\ observed.value = 8

\* C9: with an empty community pool hand_rank equals
\* PokerHand(hole cards).hand_rank, and for every 2 hole cards, paired or not,
\* it is the high-card index 9.
C9_HoleCardsHighCard ==
    (observed.op = "holdem_hand_rank" /\ community_cards = <<>>) =>
        /\ observed.value = PokerHand_hand_rank(cards)
        /\ observed.value = 9

====
